---- MODULE Spec2Model ----
(***************************************************************************)
(* Model of the cos_upload client (src/src/uploader.rs): the route         *)
(* decision of upload_file, simple_upload, the multipart orchestration     *)
(* (init_multipart_upload, the part loop with upload_part,                 *)
(* complete_multipart_upload) and the two auxiliary calls                  *)
(* get_object_metadata and delete_object.  The remote service and the      *)
(* local file are the environment: every response is drawn from a small    *)
(* set, every request that is sent is appended to the log `requests`       *)
(* together with the response it received.                                 *)
(***************************************************************************)
EXTENDS Integers, Sequences, FiniteSets, TLC

VARIABLES
    pc,           \* position of the call in progress
    bucket,       \* Config.bucket
    region,       \* Config.region
    object_key,   \* the object_key argument
    disk_size,    \* length of the local file on disk (NoFile when absent)
    route,        \* path chosen by upload_file: "none", "simple", "multipart"
    size_seen,    \* file_size read by upload_file (uploader.rs:55)
    upload_id,    \* local upload_id of multipart_upload
    file_size,    \* local file_size of multipart_upload (uploader.rs:161)
    part_number,  \* local part_number of multipart_upload
    etags,        \* local etags of multipart_upload: the Part Records
    requests,     \* log of the HTTP exchanges performed, oldest first
    result,       \* value the call returned, NoResult while it runs
    metadata,     \* the metadata argument of upload_file: Option<Metadata>
    calls,        \* results of the calls the test has finished, oldest first
    file_changes, \* how often the local file was changed during the call
    sig           \* arguments, clock and locals of generate_authorization

vars == <<pc, bucket, region, object_key, disk_size, route, size_seen,
          upload_id, file_size, part_number, etags, requests, result,
          metadata, calls, file_changes, sig>>

\* what the operations of the uploader never touch
others == <<metadata, calls, file_changes, sig>>

----------------------------------------------------------------------------
(* Bounds of the model *)

\* largest value of the part counter: u32::MAX of `1u32`, scaled down
U32Max == 3
\* longest response body of the initiate call, in tokens
MaxBodyLen == 3

(* Program constants *)

MULTIPART_THRESHOLD == 5 * 1024 * 1024
PART_SIZE == 5 * 1024 * 1024

----------------------------------------------------------------------------
(* Values *)

NoFile == -1
NoResult == [kind |-> "None"]
NoUploadId == <<"?">>
NoHeader == "<absent>"
BadHeader == "<not visible ascii>"
Unreadable == <<"<body read failed>">>
NetErr == [kind |-> "neterr"]

Min(a, b) == IF a < b THEN a ELSE b

\* Option<T>
None == [some |-> FALSE]
Some(v) == [some |-> TRUE, val |-> v]

\* generate_authorization is not under test
SigOff == [pc |-> "off"]

Buckets == {"b1", "b2"}
Regions == {"r1"}
Keys == {"k"}

\* sizes around every multiple of the part size, past the counter's range
FileSizes ==
    {s \in {k * PART_SIZE + d : k \in 0..(U32Max + 1), d \in {-1, 0, 1}} :
        s >= 0}

Statuses == {199, 200, 299, 300, 404}
Etags == {"e1", "e2"}

OPEN == "<UploadId>"
CLOSE == "</UploadId>"
Tokens == {OPEN, CLOSE, "u"}

RECURSIVE SeqsUpTo(_, _)
SeqsUpTo(S, n) ==
    IF n = 0 THEN {<<>>}
    ELSE LET shorter == SeqsUpTo(S, n - 1)
         IN  shorter \cup {Append(s, t) : s \in {q \in shorter : Len(q) = n - 1}, t \in S}

Bodies == SeqsUpTo(Tokens, MaxBodyLen)
ErrorBodies == {<<>>, <<"AccessDenied">>}

Http(status, body, etag) ==
    [kind |-> "http", status |-> status, body |-> body, etag |-> etag]

\* responses of the service to each kind of request
InitResponses ==
    {NetErr} \cup {Http(s, b, NoHeader) : s \in Statuses, b \in Bodies \cup {Unreadable}}
PartResponses ==
    {NetErr} \cup {Http(200, <<>>, e) : e \in Etags \cup {NoHeader, BadHeader}}
            \cup {Http(s, <<"AccessDenied">>, NoHeader) : s \in {199, 300, 404}}
PlainResponses ==
    {NetErr} \cup {Http(s, b, NoHeader) : s \in Statuses, b \in ErrorBodies \cup {Unreadable}}

----------------------------------------------------------------------------
(* Results: Ok(v), Err(msg), or a panic of the task *)

Ok(v) == [kind |-> "Ok", val |-> v]
Err(msg) == [kind |-> "Err", msg |-> msg]
Panic == [kind |-> "Panic"]

\* anyhow error made from a reqwest / std::io error by `?`
TransportError == <<"reqwest::Error">>
IoError == <<"std::io::Error">>

\* reqwest StatusCode::is_success
IsSuccess(status) == 200 <= status /\ status <= 299

\* where a call ends for a result
EndPc(r) ==
    CASE r.kind = "Ok" -> "done"
      [] r.kind = "Err" -> "failed"
      [] r.kind = "Panic" -> "panicked"

----------------------------------------------------------------------------
(* Text: a string is a sequence of characters (or of opaque pieces) *)

\* byte value of a character, the order String::cmp compares by
Byte(c) ==
    CASE c = " " -> 32 [] c = "-" -> 45 [] c = "/" -> 47
      [] c = "A" -> 65 [] c = "B" -> 66 [] c = "P" -> 80
      [] c = "T" -> 84 [] c = "U" -> 85 [] c = "_" -> 95
      [] c = "a" -> 97 [] c = "b" -> 98 [] c = "p" -> 112
      [] c = "t" -> 116 [] c = "u" -> 117 [] c = "v" -> 118

\* char::to_lowercase on the characters that occur
Lower(c) ==
    CASE c = "A" -> "a" [] c = "B" -> "b" [] c = "C" -> "c"
      [] c = "H" -> "h" [] c = "L" -> "l" [] c = "P" -> "p"
      [] c = "T" -> "t" [] c = "U" -> "u"
      [] OTHER -> c

\* str::to_lowercase
ToLowercase(str) == [i \in 1..Len(str) |-> Lower(str[i])]

\* String::cmp(a, b) = Less: lexicographic by bytes
RECURSIVE StrLess(_, _)
StrLess(a, b) ==
    IF a = <<>> THEN b # <<>>
    ELSE IF b = <<>> THEN FALSE
    ELSE IF Byte(Head(a)) # Byte(Head(b)) THEN Byte(Head(a)) < Byte(Head(b))
    ELSE StrLess(Tail(a), Tail(b))

\* the characters urlencoding::encode leaves alone, of those that occur
Unreserved == {"-", "_", "A", "B", "P", "T", "U", "a", "b", "p", "t", "u", "v"}

\* urlencoding::encode of one character
EncodeChar(c) ==
    CASE c \in Unreserved -> <<c>>
      [] c = " " -> <<"%", "2", "0">>
      [] c = "/" -> <<"%", "2", "F">>

\* urlencoding::encode
RECURSIVE UrlEncode(_)
UrlEncode(str) ==
    IF str = <<>> THEN <<>> ELSE EncodeChar(Head(str)) \o UrlEncode(Tail(str))

\* [String]::join(sep)
RECURSIVE Join(_, _)
Join(strs, sep) ==
    IF strs = <<>> THEN <<>>
    ELSE IF Len(strs) = 1 THEN strs[1]
    ELSE strs[1] \o sep \o Join(Tail(strs), sep)

----------------------------------------------------------------------------
(* signature.rs.  A HashMap is given by the sequence of its entries       *)
(* <<key, value>> in the order its iterator yields them.                  *)

\* place of entry e among entries already sorted by key
RECURSIVE InsertByKey(_, _)
InsertByKey(sorted, e) ==
    IF sorted = <<>> THEN <<e>>
    ELSE IF StrLess(e[1], Head(sorted)[1]) THEN <<e>> \o sorted
    ELSE <<Head(sorted)>> \o InsertByKey(Tail(sorted), e)

\* the entries are left in iteration order
SortByKey_NoSort(entries) == entries
\* sort_by(|a, b| a.0.cmp(b.0)), signature.rs:62 and 81
RECURSIVE SortByKey(_)
SortByKey(entries) ==
    IF entries = <<>> THEN <<>>
    ELSE InsertByKey(SortByKey(SubSeq(entries, 1, Len(entries) - 1)),
                     entries[Len(entries)])

\* signature.rs:64-68 and 83-87
NameList(sorted) ==
    Join([i \in 1..Len(sorted) |-> ToLowercase(sorted[i][1])], <<";">>)

\* signature.rs:70-74 and 89-93
KeyValueString(sorted) ==
    Join([i \in 1..Len(sorted) |->
             UrlEncode(ToLowercase(sorted[i][1])) \o <<"=">>
                 \o UrlEncode(sorted[i][2])],
         <<"&">>)

\* format_params, signature.rs:60-77
FormatParams(params) ==
    LET sorted_params == SortByKey(params)
    IN  <<NameList(sorted_params), KeyValueString(sorted_params)>>

\* format_headers, signature.rs:79-96
FormatHeaders(headers) ==
    LET sorted_headers == SortByKey(headers)
    IN  <<NameList(sorted_headers), KeyValueString(sorted_headers)>>

\* hmac_sha1, signature.rs:98-103: the hex digest as an uninterpreted term
HmacSha1(key, message) == <<"hmac_sha1(">> \o key \o <<",">> \o message \o <<")">>

\* sha1_digest, signature.rs:105-109: the hex digest as an uninterpreted term
Sha1Digest(message) == <<"sha1(">> \o message \o <<")">>

\* format!("{};{}", start_time, end_time), signature.rs:34
KeyTime(start_time, end_time) == <<ToString(start_time), ";", ToString(end_time)>>

\* the header list and the parameter list change places
AuthorizationString_Swapped(secret_id, key_time, header_list, url_param_list, signature) ==
    <<"q-sign-algorithm=sha1">> \o <<"&q-ak=">> \o secret_id
        \o <<"&q-sign-time=">> \o key_time \o <<"&q-key-time=">> \o key_time
        \o <<"&q-header-list=">> \o url_param_list
        \o <<"&q-url-param-list=">> \o header_list
        \o <<"&q-signature=">> \o signature
\* the format! of signature.rs:54-57
AuthorizationString(secret_id, key_time, header_list, url_param_list, signature) ==
    <<"q-sign-algorithm=sha1">> \o <<"&q-ak=">> \o secret_id
        \o <<"&q-sign-time=">> \o key_time \o <<"&q-key-time=">> \o key_time
        \o <<"&q-header-list=">> \o header_list
        \o <<"&q-url-param-list=">> \o url_param_list
        \o <<"&q-signature=">> \o signature

\* generate_authorization, signature.rs:22-58, with the clock reading `now`;
\* the record holds its locals and the string it returns
GenerateAuthorization(secret_id, secret_key, method, path, params, headers, expire, now) ==
    LET start_time == now
        end_time == start_time + expire
        key_time == KeyTime(start_time, end_time)
        fp == FormatParams(params)
        fh == FormatHeaders(headers)
        sign_key == HmacSha1(secret_key, key_time)
        http_string == ToLowercase(method) \o <<"\n">> \o path \o <<"\n">>
                           \o fp[2] \o <<"\n">> \o fh[2] \o <<"\n">>
        sha1_http_string == Sha1Digest(http_string)
        string_to_sign == <<"sha1\n">> \o key_time \o <<"\n">>
                              \o sha1_http_string \o <<"\n">>
        signature == HmacSha1(sign_key, string_to_sign)
    IN  [key_time |-> key_time,
         url_param_list |-> fp[1], http_parameters |-> fp[2],
         header_list |-> fh[1], http_headers |-> fh[2],
         http_string |-> http_string,
         string_to_sign |-> string_to_sign,
         signature |-> signature,
         authorization |->
             AuthorizationString(secret_id, key_time, fh[1], fp[1], signature)]

----------------------------------------------------------------------------
(* URLs *)

\* the upload id as it is formatted into a URL
RECURSIVE Flatten(_)
Flatten(tokens) ==
    IF tokens = <<>> THEN "" ELSE Head(tokens) \o Flatten(Tail(tokens))

\* uploader.rs:74-77
SimpleUrl(b, r, k) == "https://" \o b \o ".cos." \o r \o ".myqcloud.com/" \o k
\* the returned URL keeps the query string of the initiate URL
BaseUrl_WithQuery(b, r, k) ==
    "https://" \o b \o ".cos." \o r \o ".myqcloud.com/" \o k \o "?uploads"
\* uploader.rs:151-154
BaseUrl(b, r, k) == "https://" \o b \o ".cos." \o r \o ".myqcloud.com/" \o k
\* uploader.rs:205-208
InitUrl(b, r, k) ==
    "https://" \o b \o ".cos." \o r \o ".myqcloud.com/" \o k \o "?uploads"
\* the part URL without the value of uploadId
PartUrl_NoUploadId(b, r, k, n, id) ==
    "https://" \o b \o ".cos." \o r \o ".myqcloud.com/" \o k
        \o "?partNumber=" \o ToString(n) \o "&uploadId="
\* uploader.rs:287-290
PartUrl(b, r, k, n, id) ==
    "https://" \o b \o ".cos." \o r \o ".myqcloud.com/" \o k
        \o "?partNumber=" \o ToString(n) \o "&uploadId=" \o Flatten(id)
\* uploader.rs:362-365
CompleteUrl(b, r, k, id) ==
    "https://" \o b \o ".cos." \o r \o ".myqcloud.com/" \o k
        \o "?uploadId=" \o Flatten(id)
\* the URL of the bucket, without the object key
HeadUrl_NoKey(b, r, k) == "https://" \o b \o ".cos." \o r \o ".myqcloud.com/"
\* uploader.rs:436-439
HeadUrl(b, r, k) == "https://" \o b \o ".cos." \o r \o ".myqcloud.com/" \o k
\* uploader.rs:497-500
DeleteUrl(b, r, k) == "https://" \o b \o ".cos." \o r \o ".myqcloud.com/" \o k

\* one logged exchange: the request line, the signed query parameters
\* (part_number, upload_id), the byte range of the file sent as body, the
\* text body, and the response received
Request(kind, url, n, id, start, end, body, resp) ==
    [kind |-> kind, url |-> url, part_number |-> n, upload_id |-> id,
     start |-> start, end |-> end, body |-> body, resp |-> resp]

----------------------------------------------------------------------------
(* Header maps.  A HashMap<String, String> is a function from keys to     *)
(* values; the header lines of a request are a bag of <<name, value>>.     *)

EmptyMap == [k \in {} |-> <<>>]

\* HashMap::insert
Insert(map, key, value) ==
    [k \in DOMAIN map \cup {key} |-> IF k = key THEN value ELSE map[k]]

Authorization == <<"A", "u", "t", "h", "o", "r", "i", "z", "a", "t", "i", "o", "n">>
Host == <<"H", "o", "s", "t">>
ContentType == <<"C", "o", "n", "t", "e", "n", "t", "-", "T", "y", "p", "e">>
ContentLength ==
    <<"C", "o", "n", "t", "e", "n", "t", "-", "L", "e", "n", "g", "t", "h">>
XCosMeta == <<"x", "-", "c", "o", "s", "-", "m", "e", "t", "a", "-">>

\* the value of the Authorization header: generate_authorization(..)
AuthorizationValue == <<"generate_authorization(..)">>
\* mime_guess::from_path(file_path).first_or_octet_stream(), uploader.rs:79-81
MimeGuess == <<"application/octet-stream">>
\* uploader.rs:89-92
HostValue(b, r) == <<b, ".cos.", r, ".myqcloud.com">>

\* the metadata key is lower-cased when the header name is built
MetaHeaderName_Lowered(key) == XCosMeta \o ToLowercase(key)
\* format!("x-cos-meta-{}", key), uploader.rs:99 and 221
MetaHeaderName(key) == XCosMeta \o key

\* uploader.rs:97-101 and 219-223: one insert per metadata entry
RECURSIVE InsertAll(_, _, _)
InsertAll(map, meta, keys) ==
    IF keys = {} THEN map
    ELSE LET k == CHOOSE x \in keys : TRUE
         IN  InsertAll(Insert(map, MetaHeaderName(k), meta[k]), meta, keys \ {k})

AddMetadata(map, meta) ==
    IF meta.some THEN InsertAll(map, meta.val, DOMAIN meta.val) ELSE map

\* characters that may not occur in a header name, of those that occur
InvalidNameChars == {" ", "/"}

\* HeaderName::try_from accepts the name
ValidHeaderName(name) == \A i \in 1..Len(name) : name[i] \notin InvalidNameChars

\* RequestBuilder::header(key, value) for every entry, uploader.rs:121-123:
\* the name becomes a HeaderName, which is lower case, and the line is
\* appended
HeaderLines(map) ==
    LET line(k) == <<ToLowercase(k), map[k]>>
    IN  [l \in {line(k) : k \in DOMAIN map} |->
            Cardinality({k \in DOMAIN map : line(k) = l})]

\* the builder holds an error when a header name was refused
BuilderOk(map) == \A k \in DOMAIN map : ValidHeaderName(k)

\* the exchange with the arguments given to generate_authorization (params,
\* headers) and the header lines sent
Sent(request, params, headers, lines) ==
    request @@ [params |-> params, signed |-> headers, headers |-> lines]

\* uploader.rs:85-101
SimpleHeaders(b, r, len, meta) ==
    AddMetadata(
        Insert(Insert(Insert(EmptyMap, ContentType, MimeGuess),
                      Host, HostValue(b, r)),
               ContentLength, <<ToString(len)>>),
        meta)

\* uploader.rs:210-223
InitHeaders(b, r, meta) == AddMetadata(Insert(EmptyMap, Host, HostValue(b, r)), meta)

\* uploader.rs:292-300
PartHeaders(b, r, len) ==
    Insert(Insert(EmptyMap, Host, HostValue(b, r)), ContentLength, <<ToString(len)>>)

\* uploader.rs:367-374, 441-448, 502-509
HostHeaders(b, r) == Insert(EmptyMap, Host, HostValue(b, r))

\* .header("Authorization", ..).header("Host", ..), uploader.rs:320-327
AuthAndHost(b, r) ==
    Insert(Insert(EmptyMap, Authorization, AuthorizationValue), Host, HostValue(b, r))

----------------------------------------------------------------------------
\* a client with its arguments, before any call
InitWith(sizes, metas) ==
    /\ pc = "idle"
    /\ bucket \in Buckets
    /\ region \in Regions
    /\ object_key \in Keys
    /\ disk_size \in sizes
    /\ metadata \in metas
    /\ calls = <<>>
    /\ file_changes = 0
    /\ sig = SigOff
    /\ route = "none"
    /\ size_seen = 0
    /\ upload_id = NoUploadId
    /\ file_size = 0
    /\ part_number = 0
    /\ etags = <<>>
    /\ requests = <<>>
    /\ result = NoResult

Init == InitWith(FileSizes \cup {NoFile}, {None})

\* the threshold test with >= for >
UseMultipart_AtThreshold(size) == size >= MULTIPART_THRESHOLD
\* upload_file: the size threshold decision, uploader.rs:57
UseMultipart(size) == size > MULTIPART_THRESHOLD

\* upload_file, uploader.rs:48-62, up to the call of the chosen path
UploadFile ==
    /\ pc = "idle"
    /\ IF disk_size = NoFile
       THEN /\ pc' = "failed"
            /\ result' = Err(IoError)
            /\ UNCHANGED <<route, size_seen>>
       ELSE /\ size_seen' = disk_size
            /\ route' = (IF UseMultipart(disk_size) THEN "multipart" ELSE "simple")
            /\ pc' = (IF UseMultipart(disk_size) THEN "init" ELSE "simple")
            /\ UNCHANGED result
    /\ UNCHANGED <<bucket, region, object_key, disk_size, upload_id, file_size,
                   part_number, etags, requests>>
    /\ UNCHANGED others

\* result of simple_upload for a response, uploader.rs:126-138
SimpleResult(url, resp) ==
    IF resp = NetErr THEN Err(TransportError)
    ELSE IF IsSuccess(resp.status) THEN Ok(url)
    ELSE IF resp.body = Unreadable THEN Err(TransportError)
    ELSE Err(<<"upload failed: ">> \o resp.body)

\* simple_upload, uploader.rs:65-139
SimpleUpload(resp) ==
    /\ pc = "simple"
    /\ LET url == SimpleUrl(bucket, region, object_key)
           headers == SimpleHeaders(bucket, region, disk_size, metadata)
           r == SimpleResult(url, resp)
       IN  IF disk_size = NoFile
           THEN \* tokio::fs::read fails
                /\ result' = Err(IoError)
                /\ pc' = "failed"
                /\ UNCHANGED requests
           ELSE IF ~BuilderOk(headers)
           THEN \* send() returns the builder's error
                /\ result' = Err(TransportError)
                /\ pc' = "failed"
                /\ UNCHANGED requests
           ELSE /\ requests' = Append(requests,
                       Sent(Request("PUT_OBJECT", url, 0, NoUploadId, 0,
                                    disk_size, "", resp),
                            EmptyMap, headers,
                            HeaderLines(Insert(headers, Authorization,
                                               AuthorizationValue))))
                /\ result' = r
                /\ pc' = EndPc(r)
    /\ UNCHANGED <<bucket, region, object_key, disk_size, route, size_seen,
                   upload_id, file_size, part_number, etags>>
    /\ UNCHANGED others

----------------------------------------------------------------------------
(* init_multipart_upload *)

\* position of the first occurrence of token t in s, 0 when there is none
RECURSIVE IndexOf(_, _, _)
IndexOf(s, t, i) ==
    IF i > Len(s) THEN 0
    ELSE IF s[i] = t THEN i
    ELSE IndexOf(s, t, i + 1)

\* text.split(pat).next(): the piece before the first pat, all of it if none
SplitFirst(s, pat) ==
    LET i == IndexOf(s, pat, 1)
    IN  IF i = 0 THEN s ELSE SubSeq(s, 1, i - 1)

\* text.split(pat).nth(1): the piece after the first pat, up to the next one
SplitSecond(s, pat) ==
    LET i == IndexOf(s, pat, 1)
    IN  IF i = 0 THEN None
        ELSE Some(SplitFirst(SubSeq(s, i + 1, Len(s)), pat))

\* uploader.rs:255-262: unwrap of None panics
ParseUploadId(text) ==
    LET after == SplitSecond(text, OPEN)
    IN  IF ~after.some THEN Panic
        ELSE Ok(SplitFirst(after.val, CLOSE))

\* init_multipart_upload without the status test
InitResult_NoStatusCheck(resp) ==
    IF resp = NetErr THEN Err(TransportError)
    ELSE IF resp.body = Unreadable THEN Err(TransportError)
    ELSE ParseUploadId(resp.body)
\* result of init_multipart_upload for a response, uploader.rs:247-265
InitResult(resp) ==
    IF resp = NetErr THEN Err(TransportError)
    ELSE IF IsSuccess(resp.status)
         THEN IF resp.body = Unreadable THEN Err(TransportError)
              ELSE ParseUploadId(resp.body)
         ELSE Err(<<"init multipart upload failed">>)

\* multipart_upload, uploader.rs:142-163: initiate, open the file, set up the loop
InitMultipartUpload(resp) ==
    /\ pc = "init"
    /\ LET url == InitUrl(bucket, region, object_key)
           headers == InitHeaders(bucket, region, metadata)
           r == InitResult(resp)
           opened == IF r.kind # "Ok" THEN r
                     ELSE IF disk_size = NoFile THEN Err(IoError)
                     ELSE r
       IN  IF ~BuilderOk(headers)
           THEN \* send() returns the builder's error
                /\ result' = Err(TransportError)
                /\ pc' = "failed"
                /\ UNCHANGED <<requests, upload_id, file_size, part_number, etags>>
           ELSE
           /\ requests' = Append(requests,
                  Sent(Request("INITIATE", url, 0, NoUploadId, 0, 0, "", resp),
                       Insert(EmptyMap, <<"u", "p", "l", "o", "a", "d", "s">>, <<>>),
                       headers,
                       HeaderLines(Insert(headers, Authorization,
                                          AuthorizationValue))))
           /\ IF opened.kind = "Ok"
              THEN /\ upload_id' = r.val
                   /\ file_size' = disk_size
                   /\ part_number' = 1
                   /\ etags' = <<>>
                   /\ pc' = "parts"
                   /\ UNCHANGED result
              ELSE /\ upload_id' = (IF r.kind = "Ok" THEN r.val ELSE upload_id)
                   /\ result' = opened
                   /\ pc' = EndPc(opened)
                   /\ UNCHANGED <<file_size, part_number, etags>>
    /\ UNCHANGED <<bucket, region, object_key, disk_size, route, size_seen>>
    /\ UNCHANGED others

----------------------------------------------------------------------------
(* the part loop *)

\* the loop condition with <= for <
LoopCond_Inclusive(n, size) == (n - 1) * PART_SIZE <= size
\* uploader.rs:165
LoopCond(n, size) == (n - 1) * PART_SIZE < size
\* uploader.rs:166
PartStart(n) == (n - 1) * PART_SIZE
\* the end of the part without the limit of the file size
PartEnd_NoMin(n, size) == n * PART_SIZE
\* uploader.rs:167
PartEnd(n, size) == Min(n * PART_SIZE, size)

\* wrapping_add(1) for checked_add(1)
CheckedAdd_Wrapping(n) == Some((n + 1) % (U32Max + 1))
\* the counter is not advanced
CheckedAdd_NoIncrement(n) == Some(n)
\* u32::checked_add(1), uploader.rs:179-181
CheckedAdd(n) == IF n >= U32Max THEN None ELSE Some(n + 1)

\* insert at the front instead of push
PushEtag_Front(list, n, etag) == <<<<n, etag>>>> \o list
\* etags.push, uploader.rs:177
PushEtag(list, n, etag) == Append(list, <<n, etag>>)

\* result of upload_part for a response, uploader.rs:317-342
PartResult(resp) ==
    IF resp = NetErr THEN Err(TransportError)
    ELSE IF IsSuccess(resp.status)
         THEN IF resp.etag = NoHeader \/ resp.etag = BadHeader THEN Panic
              ELSE Ok(resp.etag)
         ELSE Err(<<"upload part failed">>)

\* the bytes that are there are sent: read for read_exact
ReadExact_Short(disk, start, end) ==
    IF disk = NoFile \/ disk <= start THEN Err(IoError)
    ELSE Ok(Min(end, disk) - start)
\* seek(Start(start)) and read_exact of end - start bytes, uploader.rs:170-172:
\* the number of bytes in the buffer, or the error of a short read
ReadExact(disk, start, end) ==
    IF disk = NoFile \/ disk < end THEN Err(IoError) ELSE Ok(end - start)

\* the query parameters of upload_part, uploader.rs:302-305
PartParams(n, id) ==
    Insert(Insert(EmptyMap, <<"p", "a", "r", "t", "N", "u", "m", "b", "e", "r">>,
                  <<ToString(n)>>),
           <<"u", "p", "l", "o", "a", "d", "I", "d">>, id)

\* the query parameters of complete_multipart_upload, uploader.rs:376
CompleteParams(id) ==
    Insert(EmptyMap, <<"u", "p", "l", "o", "a", "d", "I", "d">>, id)

\* one iteration of the loop, uploader.rs:165-182
UploadPart(resp) ==
    /\ pc = "parts"
    /\ LoopCond(part_number, file_size)
    /\ LET start == PartStart(part_number)
           end == PartEnd(part_number, file_size)
           url == PartUrl(bucket, region, object_key, part_number, upload_id)
           buffer == ReadExact(disk_size, start, end)
           r == PartResult(resp)
           next == CheckedAdd(part_number)
       IN  IF buffer.kind # "Ok"
           THEN \* seek + read_exact: short read
                /\ result' = buffer
                /\ pc' = "failed"
                /\ UNCHANGED <<requests, etags, part_number>>
           ELSE /\ requests' = Append(requests,
                       Sent(Request("UPLOAD_PART", url, part_number, upload_id,
                                    start, start + buffer.val, "", resp),
                            PartParams(part_number, upload_id),
                            PartHeaders(bucket, region, buffer.val),
                            HeaderLines(AuthAndHost(bucket, region))))
                /\ IF r.kind # "Ok"
                   THEN /\ result' = r
                        /\ pc' = EndPc(r)
                        /\ UNCHANGED <<etags, part_number>>
                   ELSE /\ etags' = PushEtag(etags, part_number, r.val)
                        /\ IF next.some
                           THEN /\ part_number' = next.val
                                /\ UNCHANGED <<pc, result>>
                           ELSE /\ result' = Err(<<"part number overflow">>)
                                /\ pc' = "failed"
                                /\ UNCHANGED part_number
    /\ UNCHANGED <<bucket, region, object_key, disk_size, route, size_seen,
                   upload_id, file_size>>
    /\ UNCHANGED others

----------------------------------------------------------------------------
(* complete_multipart_upload *)

\* uploader.rs:392-395
PartXml(p) ==
    "<Part><PartNumber>" \o ToString(p[1]) \o "</PartNumber><ETag>" \o p[2]
        \o "</ETag></Part>"

\* .collect::<Vec<_>>().join(""), uploader.rs:390-397
RECURSIVE JoinParts(_)
JoinParts(parts) ==
    IF parts = <<>> THEN ""
    ELSE PartXml(Head(parts)) \o JoinParts(Tail(parts))

\* uploader.rs:388-398
CompleteBody(parts) ==
    "<CompleteMultipartUpload>" \o JoinParts(parts) \o "</CompleteMultipartUpload>"

\* complete_multipart_upload without the status test
CompleteResult_NoStatusCheck(resp) ==
    IF resp = NetErr THEN Err(TransportError) ELSE Ok("()")
\* result of complete_multipart_upload for a response, uploader.rs:400-419
CompleteResult(resp) ==
    IF resp = NetErr THEN Err(TransportError)
    ELSE IF IsSuccess(resp.status) THEN Ok("()")
    ELSE Err(<<"complete multipart upload failed">>)

\* multipart_upload after the loop, uploader.rs:184-188
CompleteMultipartUpload(resp) ==
    /\ pc = "parts"
    /\ ~LoopCond(part_number, file_size)
    /\ LET base_url == BaseUrl(bucket, region, object_key)
           r == CompleteResult(resp)
           ret == IF r.kind = "Ok" THEN Ok(base_url) ELSE r
       IN  /\ requests' = Append(requests,
                  Sent(Request("COMPLETE",
                               CompleteUrl(bucket, region, object_key, upload_id),
                               0, upload_id, 0, 0,
                               CompleteBody(etags), resp),
                       CompleteParams(upload_id),
                       HostHeaders(bucket, region),
                       HeaderLines(AuthAndHost(bucket, region))))
           /\ result' = ret
           /\ pc' = EndPc(ret)
    /\ UNCHANGED <<bucket, region, object_key, disk_size, route, size_seen,
                   upload_id, file_size, part_number, etags>>
    /\ UNCHANGED others

----------------------------------------------------------------------------
(* get_object_metadata and delete_object *)

\* result of get_object_metadata for a response, uploader.rs:462-484
HeadResult(resp) ==
    IF resp = NetErr THEN Err(TransportError)
    ELSE IF IsSuccess(resp.status) THEN Ok("headers")
    ELSE Err(<<"get object metadata failed">>)

\* get_object_metadata, uploader.rs:435-485
GetObjectMetadata(resp) ==
    /\ pc = "idle"
    /\ LET r == HeadResult(resp)
       IN  /\ requests' = Append(requests,
                  Sent(Request("HEAD", HeadUrl(bucket, region, object_key), 0,
                               NoUploadId, 0, 0, "", resp),
                       EmptyMap, HostHeaders(bucket, region),
                       HeaderLines(AuthAndHost(bucket, region))))
           /\ result' = r
           /\ pc' = EndPc(r)
    /\ UNCHANGED <<bucket, region, object_key, disk_size, route, size_seen,
                   upload_id, file_size, part_number, etags>>
    /\ UNCHANGED others

\* result of delete_object for a response, uploader.rs:523-541
DeleteResult(resp) ==
    IF resp = NetErr THEN Err(TransportError)
    ELSE IF IsSuccess(resp.status) THEN Ok("()")
    ELSE Err(<<"delete object failed">>)

\* delete_object, uploader.rs:496-542
DeleteObject(resp) ==
    /\ pc = "idle"
    /\ LET r == DeleteResult(resp)
       IN  /\ requests' = Append(requests,
                  Sent(Request("DELETE", DeleteUrl(bucket, region, object_key), 0,
                               NoUploadId, 0, 0, "", resp),
                       EmptyMap, HostHeaders(bucket, region),
                       HeaderLines(AuthAndHost(bucket, region))))
           /\ result' = r
           /\ pc' = EndPc(r)
    /\ UNCHANGED <<bucket, region, object_key, disk_size, route, size_seen,
                   upload_id, file_size, part_number, etags>>
    /\ UNCHANGED others

----------------------------------------------------------------------------
Next ==
    \/ UploadFile
    \/ \E resp \in PlainResponses : SimpleUpload(resp)
    \/ \E resp \in InitResponses : InitMultipartUpload(resp)
    \/ \E resp \in PartResponses : UploadPart(resp)
    \/ \E resp \in PlainResponses : CompleteMultipartUpload(resp)
    \/ \E resp \in PlainResponses : GetObjectMetadata(resp)
    \/ \E resp \in PlainResponses : DeleteObject(resp)

Spec == Init /\ [][Next]_vars

----------------------------------------------------------------------------
(* upload_file with metadata *)

\* most entries of a metadata map
MaxMetaSize == 2

MetaKeys == {<<"a">>, <<"A">>, <<"a", " ">>}
MetaValues == {<<"v">>, <<"w">>}

\* None, and Some of every map of at most MaxMetaSize entries
MetadataArgs ==
    {None} \cup
    UNION {{Some(m) : m \in [ks -> MetaValues]} :
              ks \in {x \in SUBSET MetaKeys : Cardinality(x) <= MaxMetaSize}}

\* files at the threshold and just above it, every metadata argument
InitMeta == InitWith({MULTIPART_THRESHOLD, MULTIPART_THRESHOLD + 1}, MetadataArgs)

SpecMeta == InitMeta /\ [][Next]_vars

----------------------------------------------------------------------------
(* upload_file, get_object_metadata, delete_object in sequence on one key, *)
(* as in tests::test_upload_and_delete, against an object store            *)

\* the calls of the test, in order
Script == <<"upload_file", "get_object_metadata", "delete_object">>

\* the service holds an object at url: the last 2xx PUT or DELETE of that URL
\* was a PUT
Stored(url) ==
    LET changes == {i \in 1..Len(requests) :
                       /\ requests[i].url = url
                       /\ requests[i].kind \in {"PUT_OBJECT", "DELETE"}
                       /\ requests[i].resp # NetErr
                       /\ IsSuccess(requests[i].resp.status)}
    IN  /\ changes # {}
        /\ requests[CHOOSE i \in changes : \A j \in changes : j <= i].kind
               = "PUT_OBJECT"

\* what the service may answer: anything to a PUT; to HEAD and DELETE 2xx
\* when it holds the object and 404 when it does not
ServiceAnswers(kind, url) ==
    IF kind = "PUT_OBJECT" THEN PlainResponses
    ELSE IF Stored(url) THEN {Http(s, <<>>, NoHeader) : s \in {200, 299}}
    ELSE {Http(404, b, NoHeader) : b \in ErrorBodies}

\* lib.rs:104-109: a file of at most the threshold, no metadata
InitSeq == InitWith({s \in FileSizes : s <= MULTIPART_THRESHOLD}, {None})

\* lib.rs:109
TestUpload == Len(calls) = 0 /\ UploadFile

TestSimpleUpload ==
    \E resp \in ServiceAnswers("PUT_OBJECT", SimpleUrl(bucket, region, object_key)) :
        SimpleUpload(resp)

\* lib.rs:110-114, 118-122, 126-130: the call has returned; the test goes on
\* when the result is Ok and stops at the assert when it is not
Return ==
    /\ pc \in {"done", "failed", "panicked"}
    /\ Len(calls) < Len(Script)
    /\ calls' = Append(calls, [name |-> Script[Len(calls) + 1],
                               result |-> result,
                               exchanges |-> Len(requests)])
    /\ pc' = (IF result.kind = "Ok" THEN "idle" ELSE "stopped")
    /\ UNCHANGED <<bucket, region, object_key, disk_size, route, size_seen,
                   upload_id, file_size, part_number, etags, requests, result,
                   metadata, file_changes, sig>>

\* lib.rs:117
TestGetObjectMetadata ==
    /\ Len(calls) = 1
    /\ \E resp \in ServiceAnswers("HEAD", HeadUrl(bucket, region, object_key)) :
          GetObjectMetadata(resp)

\* lib.rs:125
TestDeleteObject ==
    /\ Len(calls) = 2
    /\ \E resp \in ServiceAnswers("DELETE", DeleteUrl(bucket, region, object_key)) :
          DeleteObject(resp)

NextSeq ==
    \/ TestUpload
    \/ TestSimpleUpload
    \/ Return
    \/ TestGetObjectMetadata
    \/ TestDeleteObject

SpecSeq == InitSeq /\ [][NextSeq]_vars

----------------------------------------------------------------------------
(* upload_file while another process changes the file *)

\* most changes of the file during one upload
MaxFileChanges == 1

\* sizes the file is changed to
ChangedSizes == {0, PART_SIZE, PART_SIZE + 1}

\* the file is truncated, extended or, before multipart_upload has opened it,
\* removed, between two reads of it by the uploader (uploader.rs:55, 83,
\* 160-161, 170-172); the open handle of a removed file still reads its bytes
FileChange ==
    /\ pc \in {"idle", "simple", "init", "parts"}
    /\ file_changes < MaxFileChanges
    /\ \E s \in ChangedSizes \cup (IF pc = "parts" THEN {} ELSE {NoFile}) :
          /\ s # disk_size
          /\ disk_size' = s
    /\ file_changes' = file_changes + 1
    /\ UNCHANGED <<pc, bucket, region, object_key, route, size_seen, upload_id,
                   file_size, part_number, etags, requests, result, metadata,
                   calls, sig>>

\* one answer of each outcome per request
FileInitResponses ==
    {NetErr, Http(200, <<OPEN, "u", CLOSE>>, NoHeader), Http(404, <<>>, NoHeader)}
FilePartResponses ==
    {NetErr, Http(200, <<>>, "e1"), Http(404, <<"AccessDenied">>, NoHeader)}
FilePlainResponses ==
    {NetErr, Http(200, <<>>, NoHeader), Http(404, <<"AccessDenied">>, NoHeader)}

InitFile == InitWith(FileSizes \cup {NoFile}, {None})

NextFile ==
    \/ FileChange
    \/ UploadFile
    \/ \E resp \in FilePlainResponses : SimpleUpload(resp)
    \/ \E resp \in FileInitResponses : InitMultipartUpload(resp)
    \/ \E resp \in FilePartResponses : UploadPart(resp)
    \/ \E resp \in FilePlainResponses : CompleteMultipartUpload(resp)
    \/ \E resp \in FilePlainResponses : GetObjectMetadata(resp)
    \/ \E resp \in FilePlainResponses : DeleteObject(resp)

SpecFile == InitFile /\ [][NextFile]_vars

----------------------------------------------------------------------------
(* one upload_file invocation whose awaits all return *)

\* one answer of each outcome, and 2xx answers without upload id or ETag
LiveInitResponses == FileInitResponses \cup {Http(200, <<>>, NoHeader)}
LivePartResponses == FilePartResponses \cup {Http(200, <<>>, NoHeader)}

NextLive ==
    \/ UploadFile
    \/ \E resp \in FilePlainResponses : SimpleUpload(resp)
    \/ \E resp \in LiveInitResponses : InitMultipartUpload(resp)
    \/ \E resp \in LivePartResponses : UploadPart(resp)
    \/ \E resp \in FilePlainResponses : CompleteMultipartUpload(resp)

\* every .await of upload_file returns (uploader.rs:55, 83, 129, 157, 160-161,
\* 170-176, 185-186): the next step of the call is always taken
SpecLive == Init /\ [][NextLive]_vars /\ WF_vars(NextLive)

----------------------------------------------------------------------------
(* generate_authorization on its own *)

\* most entries the parameter map and the header map hold together
MaxMapSize == 2

SigKeys == {<<"a">>, <<"A">>, <<"B">>, <<"a", "B">>, <<"_">>, <<"a", " ">>}
SigValues == {<<"v">>, <<"u", "/">>}
SigEntries == SigKeys \X SigValues

\* the iteration orders of the maps of at most n entries (keys are unique)
OrderedMaps(n) ==
    {m \in SeqsUpTo(SigEntries, n) :
        \A i, j \in 1..Len(m) : i # j => m[i][1] # m[j][1]}

\* the arguments and the clock reading of a call; the two maps hold at most
\* MaxMapSize entries together
SigArgs ==
    UNION {{[secret_id |-> <<"AKID">>, secret_key |-> <<"secret">>, method |-> m,
             path |-> <<"/", "a">>, params |-> ps, headers |-> hs,
             expire |-> c[1], now |-> c[2]] :
               m \in {<<"p", "u", "t">>, <<"P", "U", "T">>},
               hs \in OrderedMaps(MaxMapSize - Len(ps)),
               c \in {<<60, 0>>, <<3600, 1700000000>>}} :
           ps \in OrderedMaps(MaxMapSize)}

\* a call of generate_authorization about to run
InitSig ==
    /\ sig \in {[pc |-> "call", args |-> a] : a \in SigArgs}
    /\ pc = "off"
    /\ bucket = "b1"
    /\ region = "r1"
    /\ object_key = "k"
    /\ disk_size = 0
    /\ metadata = None
    /\ calls = <<>>
    /\ file_changes = 0
    /\ route = "none"
    /\ size_seen = 0
    /\ upload_id = NoUploadId
    /\ file_size = 0
    /\ part_number = 0
    /\ etags = <<>>
    /\ requests = <<>>
    /\ result = NoResult

\* generate_authorization runs, signature.rs:22-58
Sign ==
    /\ sig.pc = "call"
    /\ LET a == sig.args
       IN  sig' = [pc |-> "signed", args |-> a,
                   out |-> GenerateAuthorization(a.secret_id, a.secret_key,
                               a.method, a.path, a.params, a.headers,
                               a.expire, a.now)]
    /\ UNCHANGED <<pc, bucket, region, object_key, disk_size, route, size_seen,
                   upload_id, file_size, part_number, etags, requests, result,
                   metadata, calls, file_changes>>

NextSig == Sign

SpecSig == InitSig /\ [][NextSig]_vars

----------------------------------------------------------------------------
(* Properties *)

FiveMiB == 5 * 1024 * 1024

ReqsOfKind(kind) == SelectSeq(requests, LAMBDA q : q.kind = kind)
PartReqs == ReqsOfKind("UPLOAD_PART")
Ended == pc \in {"done", "failed", "panicked"}

Is2xx(resp) == resp.kind = "http" /\ resp.status >= 200 /\ resp.status <= 299
IsNon2xx(resp) == resp.kind = "http" /\ ~(resp.status >= 200 /\ resp.status <= 299)

\* the body holds an upload-id element: an opening marker and, after it, a
\* closing marker
HasUploadIdElement(body) ==
    \E i, j \in 1..Len(body) : i < j /\ body[i] = OPEN /\ body[j] = CLOSE

\* the response is a 2xx answer that carries what the protocol promises
WellFormed2xx(q) ==
    /\ Is2xx(q.resp)
    /\ q.kind = "INITIATE" => q.resp.body # Unreadable /\ HasUploadIdElement(q.resp.body)
    /\ q.kind = "UPLOAD_PART" => q.resp.etag \in Etags

AllAnswered2xx == \A i \in 1..Len(requests) : WellFormed2xx(requests[i])

CeilDiv(a, b) == (a + b - 1) \div b

\* the part requests are numbered 1..count and part n carries the bytes
\* [(n-1)*P, min(n*P, S)); the ranges tile [0, S)
PartsCover(S, count) ==
    /\ Len(PartReqs) = count
    /\ \A n \in 1..count :
          /\ PartReqs[n].part_number = n
          /\ PartReqs[n].start = (n - 1) * FiveMiB
          /\ PartReqs[n].end = Min(n * FiveMiB, S)
          /\ PartReqs[n].start < PartReqs[n].end
    /\ count > 0 => PartReqs[1].start = 0 /\ PartReqs[count].end = S
    /\ \A n \in 1..(count - 1) : PartReqs[n].end = PartReqs[n + 1].start

\* C1 as stated: for every file size S > 5 MiB, when every remote call is
\* answered 2xx, the upload sends exactly ceil(S/P) parts numbered
\* 1..ceil(S/P), part n covering [(n-1)*P, min(n*P, S)), tiling [0, S).
C1_EveryPartUploaded ==
    (route = "multipart" /\ Ended /\ AllAnswered2xx)
        => PartsCover(disk_size, CeilDiv(disk_size, FiveMiB))

\* C1 amended: the same, for every file size S > 5 MiB whose number of parts
\* ceil(S/P) does not exceed the largest value of the part counter.
C1_EveryPartUploadedInRange ==
    (route = "multipart" /\ Ended /\ AllAnswered2xx
        /\ CeilDiv(disk_size, FiveMiB) <= U32Max)
        => PartsCover(disk_size, CeilDiv(disk_size, FiveMiB))

C1_Witness ==
    /\ pc = "done"
    /\ route = "multipart"
    /\ disk_size = FiveMiB + 1
    /\ Len(PartReqs) = 2
    /\ PartReqs[2].end - PartReqs[2].start = 1

\* C2: upload_file takes the multipart path iff the file size is strictly
\* greater than 5 MiB; a file of at most 5 MiB is sent with one simple PUT and
\* no multipart request, a larger file with multipart requests and no simple
\* PUT.
C2_RouteByThreshold ==
    route # "none" =>
        /\ route = "multipart" <=> size_seen > FiveMiB
        /\ route = "simple" <=> size_seen <= FiveMiB
        /\ route = "simple" =>
              /\ Len(requests) <= 1
              /\ \A i \in 1..Len(requests) :
                    /\ requests[i].kind = "PUT_OBJECT"
                    /\ requests[i].end - requests[i].start = size_seen
              /\ pc = "done" => Len(requests) = 1
        /\ route = "multipart" =>
              /\ \A i \in 1..Len(requests) : requests[i].kind # "PUT_OBJECT"
              /\ Len(requests) > 0 => requests[1].kind = "INITIATE"

C2_Witness ==
    /\ route = "simple"
    /\ size_seen = FiveMiB
    /\ pc = "done"
    /\ Len(requests) = 1

\* the completion document for the Part Records (1,e1)..(k,ek) in ascending
\* order
RECURSIVE ManifestUpTo(_, _)
ManifestUpTo(tags, k) ==
    IF k = 0 THEN ""
    ELSE ManifestUpTo(tags, k - 1) \o "<Part><PartNumber>" \o ToString(k)
            \o "</PartNumber><ETag>" \o tags[k] \o "</ETag></Part>"

Manifest(tags) ==
    "<CompleteMultipartUpload>" \o ManifestUpTo(tags, Len(tags))
        \o "</CompleteMultipartUpload>"

\* the part requests the service answered with 2xx and an ETag
UploadedParts ==
    SelectSeq(PartReqs, LAMBDA q : Is2xx(q.resp) /\ q.resp.etag \in Etags)

\* C3: in every state of a multipart upload the Part Records are exactly
\* (1,e1),(2,e2),..,(k,ek) for the k parts uploaded so far, ei being the ETag
\* the service returned for part i, and the completion manifest submitted
\* lists exactly these entries in ascending part-number order.
C3_PartRecordsInOrder ==
    route = "multipart" =>
        /\ Len(etags) = Len(UploadedParts)
        /\ \A i \in 1..Len(etags) :
              /\ etags[i] = <<i, UploadedParts[i].resp.etag>>
              /\ UploadedParts[i].part_number = i
        /\ \A i \in 1..Len(requests) :
              requests[i].kind = "COMPLETE" =>
                  requests[i].body =
                      Manifest([n \in 1..Len(UploadedParts) |->
                                   UploadedParts[n].resp.etag])

C3_Witness ==
    /\ pc = "done"
    /\ Len(etags) = 2
    /\ etags[1][2] # etags[2][2]
    /\ requests[Len(requests)].kind = "COMPLETE"

\* C4: when the initiate call, a part upload or the complete call receives a
\* non-2xx response, upload_file returns an error and that request is the
\* last one of the upload: no later part upload, no complete call, no
\* cleanup call.
C4_Non2xxAborts ==
    \A i \in 1..Len(requests) :
        (requests[i].kind \in {"INITIATE", "UPLOAD_PART", "COMPLETE"}
            /\ IsNon2xx(requests[i].resp))
        => /\ i = Len(requests)
           /\ pc = "failed"
           /\ result.kind = "Err"

C4_Witness ==
    /\ pc = "failed"
    /\ Len(requests) = 3
    /\ requests[3].kind = "UPLOAD_PART"
    /\ requests[3].resp.kind = "http"
    /\ requests[3].resp.status = 404
    /\ Len(etags) = 1
    /\ file_size > 2 * FiveMiB

\* the text between the opening and the closing marker of the first
\* upload-id element of a body that has one
DelimitedId(body) ==
    LET i == CHOOSE a \in 1..Len(body) :
                 body[a] = OPEN /\ \A b \in 1..(a - 1) : body[b] # OPEN
        j == CHOOSE a \in (i + 1)..Len(body) :
                 body[a] = CLOSE /\ \A b \in (i + 1)..(a - 1) : body[b] # CLOSE
    IN  SubSeq(body, i + 1, j - 1)

\* C5: when the initiate response is 2xx but its body has no upload-id
\* element, init_multipart_upload returns an error value (no panic), no
\* session id is taken from the body, and no part upload is attempted.
C5_MissingUploadIdFailsCleanly ==
    \A i \in 1..Len(requests) :
        (requests[i].kind = "INITIATE" /\ Is2xx(requests[i].resp)
            /\ requests[i].resp.body # Unreadable
            /\ ~HasUploadIdElement(requests[i].resp.body))
        => /\ pc = "failed"
           /\ result.kind = "Err"
           /\ upload_id = NoUploadId
           /\ Len(PartReqs) = 0

\* C6: when a part upload receives a 2xx response without an ETag header,
\* upload_part returns an error (no panic), the part is not recorded and the
\* complete call is not sent.
C6_MissingETagFailsCleanly ==
    \A i \in 1..Len(requests) :
        (requests[i].kind = "UPLOAD_PART" /\ Is2xx(requests[i].resp)
            /\ requests[i].resp.etag = NoHeader)
        => /\ pc = "failed"
           /\ result.kind = "Err"
           /\ \A k \in 1..Len(etags) : etags[k][1] # requests[i].part_number
           /\ Len(ReqsOfKind("COMPLETE")) = 0

\* C7: the part counter never wraps: every part-upload request carries a
\* part number in 1..max that is greater than all part numbers used before
\* it, and once the part numbered max has been uploaded the upload fails
\* with an error instead of uploading anything further.
C7_PartNumberNeverWraps ==
    /\ \A i \in 1..Len(PartReqs) :
          /\ PartReqs[i].part_number >= 1
          /\ PartReqs[i].part_number <= U32Max
          /\ \A j \in 1..(i - 1) : PartReqs[j].part_number < PartReqs[i].part_number
    /\ part_number <= U32Max
    /\ \A i \in 1..Len(requests) :
          (requests[i].kind = "UPLOAD_PART" /\ requests[i].part_number = U32Max
              /\ WellFormed2xx(requests[i]))
          => /\ i = Len(requests)
             /\ pc = "failed"
             /\ result.kind = "Err"

C7_Witness ==
    /\ pc = "failed"
    /\ result = Err(<<"part number overflow">>)
    /\ Len(PartReqs) = U32Max
    /\ file_size > U32Max * FiveMiB

IsFailure(resp) == resp.kind = "neterr" \/ IsNon2xx(resp)

\* C8: nothing is retried: in one invocation the initiate request, the
\* complete request and the simple PUT are each sent at most once, no part
\* number is uploaded twice, and a request that failed is the last request.
C8_NoRetry ==
    /\ Len(ReqsOfKind("INITIATE")) <= 1
    /\ Len(ReqsOfKind("COMPLETE")) <= 1
    /\ Len(ReqsOfKind("PUT_OBJECT")) <= 1
    /\ \A i, j \in 1..Len(PartReqs) :
          i # j => PartReqs[i].part_number # PartReqs[j].part_number
    /\ \A i \in 1..Len(requests) :
          IsFailure(requests[i].resp) => i = Len(requests) /\ pc = "failed"

C8_Witness ==
    /\ pc = "failed"
    /\ Len(requests) = 3
    /\ requests[3].kind = "UPLOAD_PART"
    /\ requests[3].resp = NetErr
    /\ requests[3].part_number = 2

\* C9: on success upload_file returns
\* https://{bucket}.cos.{region}.myqcloud.com/{objectKey}, without a query
\* string, on the simple path and on the multipart path alike.
C9_SameUrlOnBothRoutes ==
    (route # "none" /\ result.kind = "Ok") =>
        result.val = "https://" \o bucket \o ".cos." \o region
                        \o ".myqcloud.com/" \o object_key

C9_Witness ==
    /\ route = "multipart"
    /\ pc = "done"
    /\ result.kind = "Ok"
    /\ Len(etags) >= 2

\* msg ends with the text body
CarriesBody(msg, body) ==
    /\ Len(msg) >= Len(body)
    /\ SubSeq(msg, Len(msg) - Len(body) + 1, Len(msg)) = body

\* C10: for every kind of request, a non-2xx response makes the call fail
\* with an error value that carries the response body.
C10_ErrorCarriesBody ==
    \A i \in 1..Len(requests) :
        (IsNon2xx(requests[i].resp) /\ requests[i].resp.body # Unreadable
            /\ requests[i].resp.body # <<>>)
        => /\ result.kind = "Err"
           /\ CarriesBody(result.msg, requests[i].resp.body)

----------------------------------------------------------------------------
(* Properties of signature.rs *)

Signed == sig.pc = "signed"

\* the orders in which the entries of a map can be iterated
Orders(m) ==
    {[i \in 1..Len(m) |-> m[pi[i]]] : pi \in Permutations(1..Len(m))}

LowerKey(e) == [i \in 1..Len(e[1]) |-> Lower(e[1][i])]

\* the entries are ascending by lower-cased key
AscendingLowerKeys(o) ==
    \A i, j \in 1..Len(o) : i < j => ~StrLess(LowerKey(o[j]), LowerKey(o[i]))

RECURSIVE Concat(_, _)
Concat(strs, sep) ==
    IF Len(strs) = 0 THEN <<>>
    ELSE IF Len(strs) = 1 THEN strs[1]
    ELSE Concat(SubSeq(strs, 1, Len(strs) - 1), sep) \o sep \o strs[Len(strs)]

\* the name list and the key=value string for the entries in the order o
CanonicalNames(o) == Concat([i \in 1..Len(o) |-> LowerKey(o[i])], <<";">>)
CanonicalPairs(o) ==
    Concat([i \in 1..Len(o) |->
               UrlEncode(LowerKey(o[i])) \o <<"=">> \o UrlEncode(o[i][2])],
           <<"&">>)

\* C12: for every header or query map, also with keys of mixed case, the
\* name list and the key=value string list the entries in ascending
\* lexicographic order of the lower-cased key.
C12_SortedByLowerCasedKey ==
    Signed =>
        /\ \E o \in Orders(sig.args.headers) :
              /\ AscendingLowerKeys(o)
              /\ sig.out.header_list = CanonicalNames(o)
              /\ sig.out.http_headers = CanonicalPairs(o)
        /\ \E o \in Orders(sig.args.params) :
              /\ AscendingLowerKeys(o)
              /\ sig.out.url_param_list = CanonicalNames(o)
              /\ sig.out.http_parameters = CanonicalPairs(o)

\* C13: the name list and the key=value string of a map are the same for
\* every order in which the same entries are iterated.
C13_OrderIndependent ==
    Signed =>
        /\ \A o \in Orders(sig.args.headers) :
              FormatHeaders(o) = <<sig.out.header_list, sig.out.http_headers>>
        /\ \A o \in Orders(sig.args.params) :
              FormatParams(o) = <<sig.out.url_param_list, sig.out.http_parameters>>

C13_Witness ==
    /\ Signed
    /\ Len(sig.args.headers) = 2
    /\ StrLess(sig.args.headers[2][1], sig.args.headers[1][1])
    /\ sig.out.header_list # <<>>

\* the pieces of str between the separators; no piece for the empty string
RECURSIVE SplitBy(_, _)
SplitBy(str, sep) ==
    LET i == IndexOf(str, sep, 1)
    IN  IF str = <<>> THEN <<>>
        ELSE IF i = 0 THEN <<str>>
        ELSE IF i = Len(str) THEN <<SubSeq(str, 1, i - 1), <<>> >>
        ELSE <<SubSeq(str, 1, i - 1)>> \o SplitBy(SubSeq(str, i + 1, Len(str)), sep)

\* the keys of a canonical key=value string
CanonicalKeys(str) ==
    LET pairs == SplitBy(str, "&")
    IN  [i \in 1..Len(pairs) |-> SubSeq(pairs[i], 1, IndexOf(pairs[i], "=", 1) - 1)]

AuthMarkers ==
    <<"q-sign-algorithm=sha1", "&q-ak=", "&q-sign-time=", "&q-key-time=",
      "&q-header-list=", "&q-url-param-list=", "&q-signature=">>

\* the value that follows the k-th marker of the authorization string
AuthField(auth, k) ==
    LET from == IndexOf(auth, AuthMarkers[k], 1)
        to == IF k = Len(AuthMarkers) THEN Len(auth) + 1
              ELSE IndexOf(auth, AuthMarkers[k + 1], 1)
    IN  SubSeq(auth, from + 1, to - 1)

\* the names of a list name the keys of a canonical string, in order
NamesMatch(list, canonical) ==
    LET names == SplitBy(list, ";")
        keys == CanonicalKeys(canonical)
    IN  /\ Len(names) = Len(keys)
        /\ \A i \in 1..Len(names) : UrlEncode(names[i]) = keys[i]

\* C14: the authorization string holds exactly the fields q-sign-algorithm=sha1,
\* q-ak, q-sign-time, q-key-time, q-header-list, q-url-param-list and
\* q-signature in that order; q-sign-time and q-key-time are both start;end
\* with end = start + validity; q-header-list and q-url-param-list name the
\* keys of the canonical header and parameter strings that were signed, in
\* the same order.
C14_AuthorizationFields ==
    Signed =>
        LET auth == sig.out.authorization
            a == sig.args
            keytime == <<ToString(a.now), ";", ToString(a.now + a.expire)>>
        IN  /\ auth[1] = AuthMarkers[1]
            /\ \A k \in 1..Len(AuthMarkers) :
                  Cardinality({i \in 1..Len(auth) : auth[i] = AuthMarkers[k]}) = 1
            /\ \A k \in 1..(Len(AuthMarkers) - 1) :
                  IndexOf(auth, AuthMarkers[k], 1) < IndexOf(auth, AuthMarkers[k + 1], 1)
            /\ AuthField(auth, 1) = <<>>
            /\ AuthField(auth, 2) = a.secret_id
            /\ AuthField(auth, 3) = keytime
            /\ AuthField(auth, 4) = keytime
            /\ NamesMatch(AuthField(auth, 5), sig.out.http_headers)
            /\ NamesMatch(AuthField(auth, 6), sig.out.http_parameters)
            /\ AuthField(auth, 7) = sig.out.signature
            /\ sig.out.signature =
                   HmacSha1(HmacSha1(a.secret_key, keytime),
                            <<"sha1\n">> \o keytime \o <<"\n">>
                                \o Sha1Digest(sig.out.http_string) \o <<"\n">>)
            /\ sig.out.http_string =
                   [i \in 1..Len(a.method) |-> Lower(a.method[i])] \o <<"\n">>
                       \o a.path \o <<"\n">> \o sig.out.http_parameters
                       \o <<"\n">> \o sig.out.http_headers \o <<"\n">>

C14_Witness ==
    /\ Signed
    /\ Len(sig.args.headers) = 1
    /\ Len(sig.args.params) = 1
    /\ sig.args.headers[1][1] # sig.args.params[1][1]
    /\ sig.args.expire = 3600
    /\ sig.args.now > 0

----------------------------------------------------------------------------
(* Properties of the metadata headers *)

MetaPrefix == <<"x", "-", "c", "o", "s", "-", "m", "e", "t", "a", "-">>

HasMetaPrefix(name) ==
    Len(name) >= Len(MetaPrefix) /\ SubSeq(name, 1, Len(MetaPrefix)) = MetaPrefix

\* the entries of the metadata argument; None has none
MetaEntries == IF metadata.some THEN metadata.val ELSE [k \in {} |-> <<>>]

\* the header lines of q whose name starts with x-cos-meta-
MetaLines(q) == {l \in DOMAIN q.headers : HasMetaPrefix(l[1])}

\* the map given to the signer holds x-cos-meta-<key> -> value for every
\* entry, the key as supplied, and no other x-cos-meta- header
SignedHoldsMetadata(q) ==
    /\ \A k \in DOMAIN MetaEntries :
          /\ MetaPrefix \o k \in DOMAIN q.signed
          /\ q.signed[MetaPrefix \o k] = MetaEntries[k]
    /\ \A n \in DOMAIN q.signed :
          HasMetaPrefix(n) =>
              \E k \in DOMAIN MetaEntries : n = MetaPrefix \o k

CarriesMetadata(q) == q.kind \in {"PUT_OBJECT", "INITIATE"}

\* C11 as stated: the simple PUT and the initiate POST carry exactly one
\* header x-cos-meta-<key> with the entry's value for each entry of the
\* metadata map, the key's case as supplied, and these headers are in the
\* header map given to the signer.
C11_MetadataHeadersCasePreserved ==
    \A i \in 1..Len(requests) :
        CarriesMetadata(requests[i]) =>
            LET q == requests[i]
            IN  /\ \A k \in DOMAIN MetaEntries :
                      /\ <<MetaPrefix \o k, MetaEntries[k]>> \in DOMAIN q.headers
                      /\ q.headers[<<MetaPrefix \o k, MetaEntries[k]>>] = 1
                /\ \A l \in MetaLines(q) :
                      \E k \in DOMAIN MetaEntries :
                          l = <<MetaPrefix \o k, MetaEntries[k]>>
                /\ SignedHoldsMetadata(q)

\* C11 amended: the simple PUT and the initiate POST carry one header line
\* per entry of the metadata map, named x-cos-meta-<key> in lower case and
\* holding the entry's value; the key's case is preserved in the header map
\* given to the signer, which holds x-cos-meta-<key> for exactly the entries.
C11_MetadataHeadersLowerCased ==
    \A i \in 1..Len(requests) :
        CarriesMetadata(requests[i]) =>
            LET q == requests[i]
                wire(k) == <<[j \in 1..Len(MetaPrefix \o k) |->
                                 Lower((MetaPrefix \o k)[j])],
                             MetaEntries[k]>>
            IN  /\ \A k \in DOMAIN MetaEntries :
                      /\ wire(k) \in DOMAIN q.headers
                      /\ q.headers[wire(k)] =
                             Cardinality({x \in DOMAIN MetaEntries : wire(x) = wire(k)})
                /\ \A l \in MetaLines(q) : \E k \in DOMAIN MetaEntries : l = wire(k)
                /\ SignedHoldsMetadata(q)

C11_Witness ==
    /\ metadata.some
    /\ DOMAIN metadata.val = {<<"a">>, <<"A">>}
    /\ metadata.val[<<"a">>] = metadata.val[<<"A">>]
    /\ Len(requests) >= 1
    /\ requests[1].kind = "INITIATE"
    /\ pc = "parts"

----------------------------------------------------------------------------
(* Properties of the multipart flow *)

\* the exchange returned success to multipart_upload
Succeeded(q) ==
    /\ Is2xx(q.resp)
    /\ q.kind = "INITIATE" => q.resp.body # Unreadable
    /\ q.kind = "UPLOAD_PART" => q.resp.etag \in Etags

\* C16: the multipart flow goes NotStarted -> Initiated -> PartsUploading ->
\* Completed in order: a part upload is sent only after the initiate call
\* succeeded, the request for part n+1 only after the request for part n
\* returned success (one at a time, ascending from 1), and the complete call
\* only after every part was uploaded successfully; nothing follows it.
C16_FlowInOrder ==
    \A i \in 1..Len(requests) :
        LET q == requests[i]
        IN  /\ q.kind = "INITIATE" => i = 1
            /\ q.kind = "UPLOAD_PART" =>
                  /\ i >= 2
                  /\ requests[1].kind = "INITIATE" /\ Succeeded(requests[1])
                  /\ q.part_number = i - 1
                  /\ \A j \in 2..(i - 1) :
                        /\ requests[j].kind = "UPLOAD_PART"
                        /\ requests[j].part_number = j - 1
                        /\ Succeeded(requests[j])
            /\ q.kind = "COMPLETE" =>
                  /\ i = Len(requests)
                  /\ i = CeilDiv(file_size, FiveMiB) + 2
                  /\ requests[1].kind = "INITIATE" /\ Succeeded(requests[1])
                  /\ \A j \in 2..(i - 1) :
                        /\ requests[j].kind = "UPLOAD_PART"
                        /\ requests[j].part_number = j - 1
                        /\ requests[j].end = Min((j - 1) * FiveMiB, file_size)
                        /\ Succeeded(requests[j])

C16_Witness ==
    /\ pc = "done"
    /\ disk_size = 2 * FiveMiB
    /\ Len(requests) = 4
    /\ requests[1].kind = "INITIATE"
    /\ requests[2].kind = "UPLOAD_PART"
    /\ requests[3].kind = "UPLOAD_PART"
    /\ requests[4].kind = "COMPLETE"

UploadIdParam == <<"u", "p", "l", "o", "a", "d", "I", "d">>

\* the object URL followed by "?" and the query string q
QueryOf(q) ==
    "https://" \o bucket \o ".cos." \o region \o ".myqcloud.com/" \o object_key
        \o "?" \o q

\* C17: every part-upload request and the complete request carry, in their
\* query parameters, the session id that the initiate call of this upload
\* returned; the id is the same in all of them.
C17_SameUploadId ==
    \A i \in 1..Len(requests) :
        LET q == requests[i]
            id == ParseUploadId(requests[1].resp.body).val
        IN  q.kind \in {"UPLOAD_PART", "COMPLETE"} =>
                /\ requests[1].kind = "INITIATE"
                /\ upload_id = id
                /\ q.upload_id = id
                /\ UploadIdParam \in DOMAIN q.params
                /\ q.params[UploadIdParam] = id
                /\ q.kind = "UPLOAD_PART" =>
                      q.url = QueryOf("partNumber=" \o ToString(q.part_number)
                                          \o "&uploadId=" \o Flatten(id))
                /\ q.kind = "COMPLETE" =>
                      q.url = QueryOf("uploadId=" \o Flatten(id))

C17_Witness ==
    /\ Len(requests) = 4
    /\ requests[4].kind = "COMPLETE"
    /\ requests[1].resp.body = <<OPEN, "u", CLOSE>>
    /\ requests[2].upload_id = <<"u">>
    /\ requests[4].upload_id = <<"u">>

\* C19: the overflow error is raised only when a further part remains: an
\* upload whose number of parts equals the largest value of the part counter,
\* every call answered 2xx, sends the complete call and returns the URL.
C19_LastPartCompletes ==
    (route = "multipart" /\ Ended /\ AllAnswered2xx
        /\ CeilDiv(disk_size, FiveMiB) = U32Max)
        => /\ pc = "done"
           /\ result = Ok(BaseUrl(bucket, region, object_key))
           /\ Len(ReqsOfKind("COMPLETE")) = 1

----------------------------------------------------------------------------
(* Properties of the upload, head, delete sequence *)

ObjectUrl ==
    "https://" \o bucket \o ".cos." \o region \o ".myqcloud.com/" \o object_key

\* the number of exchanges made by the k-th call
ExchangesOf(k) ==
    calls[k].exchanges - (IF k = 1 THEN 0 ELSE calls[k - 1].exchanges)

MethodOf(name) ==
    CASE name = "upload_file" -> "PUT_OBJECT"
      [] name = "get_object_metadata" -> "HEAD"
      [] name = "delete_object" -> "DELETE"

\* C15: upload_file of a file of at most the threshold, get_object_metadata
\* and delete_object on the same key each make exactly one exchange, to
\* https://{bucket}.cos.{region}.myqcloud.com/{K}, and return Ok exactly when
\* its status is 2xx; against a service that stores the object on a 2xx PUT
\* and answers HEAD and DELETE of a stored object with 2xx, every call made
\* after a 2xx PUT returns Ok.
C15_UploadHeadDelete ==
    /\ \A k \in 1..Len(calls) :
          LET q == requests[calls[k].exchanges]
          IN  /\ ExchangesOf(k) = 1
              /\ q.kind = MethodOf(calls[k].name)
              /\ q.url = ObjectUrl
              /\ calls[k].result.kind = "Ok" <=> Is2xx(q.resp)
    /\ (Len(requests) >= 1 /\ Is2xx(requests[1].resp)) =>
          /\ \A k \in 1..Len(calls) : calls[k].result.kind = "Ok"
          /\ \A i \in 1..Len(requests) : Is2xx(requests[i].resp)
          /\ pc # "stopped"

C15_Witness ==
    /\ Len(calls) = 3
    /\ \A k \in 1..3 : calls[k].name = Script[k] /\ calls[k].result.kind = "Ok"
    /\ calls[1].result.val = ObjectUrl
    /\ Len(requests) = 3
    /\ size_seen = FiveMiB

----------------------------------------------------------------------------
(* Properties of an upload whose file changes *)

\* the loop is about to read a part and the file holds fewer bytes than the
\* part's range [(n-1)*P, min(n*P, file_size))
ShortRead ==
    /\ pc = "parts"
    /\ part_number <= CeilDiv(file_size, FiveMiB)
    /\ disk_size < Min(part_number * FiveMiB, file_size)

\* the requests added by the step
NewRequests == {i \in 1..Len(requests') : i > Len(requests)}

\* C18: when fewer bytes can be read from the file than the byte range of the
\* part, the upload aborts at once with a local I/O error: the part is not
\* sent, with a short body or at all, nothing is sent after the abort, and
\* every part that is sent carries its whole range.
C18_ShortReadAborts ==
    [][/\ (ShortRead /\ file_changes' = file_changes) =>
              /\ pc' = "failed"
              /\ result' = Err(IoError)
              /\ requests' = requests
              /\ etags' = etags
       /\ pc = "failed" => requests' = requests /\ pc' = "failed"
       /\ \A i \in NewRequests :
             requests'[i].kind = "UPLOAD_PART" =>
                 /\ requests'[i].start = (requests'[i].part_number - 1) * FiveMiB
                 /\ requests'[i].end =
                        Min(requests'[i].part_number * FiveMiB, file_size)
      ]_vars

C18_Witness ==
    /\ pc = "failed"
    /\ result = Err(IoError)
    /\ file_size = 2 * FiveMiB
    /\ disk_size = FiveMiB + 1
    /\ Len(PartReqs) = 1
    /\ Len(requests) = 2
    /\ file_changes = 1

\* C20: the complete call is never sent with an empty manifest, also when the
\* size read after the file was opened in multipart_upload differs from the
\* size upload_file used for the threshold decision.
C20_ManifestNeverEmpty ==
    \A i \in 1..Len(requests) :
        requests[i].kind = "COMPLETE" =>
            /\ etags # <<>>
            /\ requests[i].body # "<CompleteMultipartUpload></CompleteMultipartUpload>"

----------------------------------------------------------------------------
(* Properties of the part sizes and of termination *)

\* every part request carries 5 MiB, except the last part of the file, which
\* carries between 1 byte and 5 MiB
PartSizesRight ==
    \A i \in 1..Len(PartReqs) :
        LET q == PartReqs[i]
            len == q.end - q.start
        IN  /\ q.part_number < CeilDiv(file_size, FiveMiB) => len = FiveMiB
            /\ q.part_number = CeilDiv(file_size, FiveMiB) =>
                  len >= 1 /\ len <= FiveMiB
            /\ q.part_number <= CeilDiv(file_size, FiveMiB)

\* C21 as stated: with a file whose size does not change, every upload that
\* takes the multipart path uploads at least two parts, every part but the
\* last has exactly 5 MiB and the last has between 1 byte and 5 MiB.
C21_AtLeastTwoParts ==
    (route = "multipart" /\ Ended) =>
        /\ Len(PartReqs) >= 2
        /\ PartSizesRight

\* C21 amended: with a file whose size does not change, every upload on the
\* multipart path whose remote calls are all answered 2xx, and every one
\* that sends the complete call, uploads at least two parts; every part that
\* is sent, in any upload, has exactly 5 MiB unless it is the last part of
\* the file, which has between 1 byte and 5 MiB.
C21_AtLeastTwoPartsWhenNotAborted ==
    /\ (route = "multipart" /\ Ended /\ AllAnswered2xx) => Len(PartReqs) >= 2
    /\ Len(ReqsOfKind("COMPLETE")) > 0 => Len(PartReqs) >= 2
    /\ PartSizesRight

C21_Witness ==
    /\ pc = "done"
    /\ route = "multipart"
    /\ disk_size = 2 * FiveMiB - 1
    /\ Len(PartReqs) = 2
    /\ PartReqs[1].end - PartReqs[1].start = FiveMiB
    /\ PartReqs[2].end - PartReqs[2].start = FiveMiB - 1

\* upload_file has returned the URL
Completed == pc = "done" /\ result = Ok(ObjectUrl)
\* upload_file has returned an error
Aborted == pc = "failed" /\ result.kind = "Err"

\* the call ends: it returns or it panics
EveryCallEnds == (pc = "idle") ~> Ended

\* C22: when every remote call and file read returns, every upload_file
\* invocation ends in exactly one of two outcomes, Completed (the URL is
\* returned) or Aborted (an error is returned); the part loop does not run
\* forever.
C22_EndsCompletedOrAborted ==
    (pc = "idle") ~> (Completed \/ Aborted)
====
